---- MODULE Spec2Model ----
(***************************************************************************)
(* The flow editor of frappe_pywce (studio/src/pages/Index.tsx) and its    *)
(* settings tab, as a state machine.                                       *)
(*                                                                         *)
(* Representation of JavaScript values                                     *)
(*   object            a record; an optional key is a key that may be      *)
(*                     missing from DOMAIN                                 *)
(*   array             a sequence                                          *)
(*   undefined / null  for a state variable: the record Nil; for a string  *)
(*                     valued key (connectedTo): the string Undefined      *)
(*   a value of the    the key k is missing and the key k \o "Kind" names  *)
(*   wrong type at k   what is there instead ("string", "null")            *)
(*   a null entry      the record JsonNull                                 *)
(*                                                                         *)
(* React closures: a handler created by useCallback reads the nodes,       *)
(* edges, history and historyIndex of the render it was created in, i.e.   *)
(* the values before the handler's own setNodes/setEdges take effect.      *)
(* Unprimed variables in an action are those closure values.               *)
(***************************************************************************)
EXTENDS Integers, Sequences, FiniteSets, TLC

VARIABLES
  nodes,             \* useNodesState: sequence of nodes [id, type, position, data]
  edges,             \* useEdgesState: sequence of edges
  selectedTemplate,  \* the template shown in the sidebar, or Nil
  edgeType,          \* "default" | "straight" | "step" | "smoothstep"
  history,           \* sequence of snapshots [nodes, edges]
  historyIndex,      \* JavaScript index into history, -1 when empty
  isFlowLoaded,      \* the load effect has run
  data,              \* the ChatBot Config record last fetched, or Nil
  isLoading,         \* the first fetch has not answered yet
  flowParam,         \* the URL query parameter "flow", "" when absent
  isSaving,          \* the saving flag
  inflight,          \* updateDoc requests neither resolved nor rejected
  server,            \* the flow_json stored by the backend
  readers,           \* FileReaders started and not yet loaded, with their closures
  download,          \* the file written by the last exportFlow, or Nil
  opened,            \* number of emulator windows opened
  crashed,           \* an error escaped a render or an effect: the tree is unmounted
  now,               \* Date.now()
  toasts,            \* the notifications raised by the last handler
  lastOp,            \* the last handler that ran, with its arguments
  steps,             \* number of user events handled so far
  budget             \* number of user events the run is followed for

vars == <<nodes, edges, selectedTemplate, edgeType, history, historyIndex,
          isFlowLoaded, data, isLoading, flowParam, isSaving, inflight, server,
          readers, download, opened, crashed, now, toasts, lastOp, steps, budget>>

(***************************************************************************)
(* Bounds of the model.                                                    *)
(***************************************************************************)
MaxNodes == 2
MaxSteps == 4
MaxImportSteps == 2
MaxSaveSteps == 3
MaxLoadSteps == 2
MaxHistorySteps == 4
MaxRoundTripSteps == 3
MaxClock == 1
MaxPendingReads == 1
MaxInFlight == 2

(***************************************************************************)
(* JavaScript helpers.                                                     *)
(***************************************************************************)
Nil == [nil |-> TRUE]
Undefined == "undefined"
JsonNull == [json |-> "null"]

Has(o, k) == k \in DOMAIN o
Get(o, k, d) == IF k \in DOMAIN o THEN o[k] ELSE d
\* { ...o, [k]: v }
Put(o, k, v) == (k :> v) @@ o
\* a string used as a condition
Truthy(s) == s # Undefined /\ s # ""
IsNull(v) == Has(v, "json")
\* what is stored at key k of object o
Kind(o, k) ==
  IF Has(o, k) THEN "array"
  ELSE IF Has(o, k \o "Kind") THEN o[k \o "Kind"]
  ELSE "undefined"
TruthyKind(kind) == kind \in {"array", "string", "object"}

RECURSIVE ConcatAll(_)
ConcatAll(seqs) ==
  IF seqs = <<>> THEN <<>> ELSE Head(seqs) \o ConcatAll(Tail(seqs))

Map(s, F(_)) == [i \in 1..Len(s) |-> F(s[i])]
Range(s) == {s[i] : i \in 1..Len(s)}
\* the array without its i-th element
Without(s, i) == [j \in 1..(Len(s) - 1) |-> IF j < i THEN s[j] ELSE s[j + 1]]

Toast(kind, text) == [kind |-> kind, text |-> text]

(***************************************************************************)
(* The flow document and the canvas built from it.                         *)
(***************************************************************************)
Origin == [x |-> 0, y |-> 0]

\* Index.tsx 175-179, 346-350, 573-577: the label of the edge of a route
LoadLabel(route) ==
  IF route.pattern # ""
  THEN IF route.isRegex /\ route.pattern = ".*" THEN "any" ELSE route.pattern
  ELSE ""

\* ConnectLabel without the "any" of a regex route that matches everything
ConnectLabelPattern(routePattern, isRegex) ==
  IF routePattern # "" THEN routePattern ELSE ""

ConnectLabel(routePattern, isRegex) ==
  IF routePattern # ""
  THEN IF isRegex /\ routePattern = ".*" THEN "any" ELSE routePattern
  ELSE ""

ImportLabel(route) ==
  IF route.pattern # ""
  THEN IF route.isRegex /\ route.pattern = ".*" THEN "any" ELSE route.pattern
  ELSE ""

\* `e${source}-${sourceHandle}-${target}`
EdgeId(source, sourceHandle, target) ==
  "e" \o source \o "-" \o sourceHandle \o "-" \o target

\* An edge of the canvas. origin is a ghost field, not a field of the program's
\* edge: the id of the route whose connectedTo was written when the edge was
\* made ("" when no route was written).
MakeEdge(source, sourceHandle, target, type, label, isRegex, origin) ==
  [id |-> EdgeId(source, sourceHandle, target),
   source |-> source, sourceHandle |-> sourceHandle, target |-> target,
   type |-> type, animated |-> TRUE, label |-> label,
   data |-> [isRegex |-> isRegex, edgeType |-> type],
   origin |-> origin]

\* Index.tsx 162-169: one node per template
LoadNodes(templates) ==
  Map(templates, LAMBDA template:
    [id |-> template.id, type |-> "template",
     position |-> Get(template, "position", Origin),
     data |-> template])

\* Index.tsx 171-193: one edge per route whose connectedTo is set
LoadTemplateEdges(template, type) ==
  LET connected == SelectSeq(Get(template, "routes", <<>>),
                     LAMBDA route: Truthy(Get(route, "connectedTo", Undefined)))
  IN Map(connected, LAMBDA route:
       MakeEdge(template.id, route.id, route.connectedTo, type,
                LoadLabel(route), route.isRegex, route.id))

LoadEdges(templates, type) ==
  ConcatAll(Map(templates, LAMBDA template: LoadTemplateEdges(template, type)))

\* Index.tsx 162-193: the TypeErrors of the conversion: a null template
\* (template.id), routes that are neither an array nor null/undefined
\* (routes?.forEach is not a function), a null route (route.connectedTo)
LoadThrows(templates) ==
  \E i \in 1..Len(templates) :
    \/ IsNull(templates[i])
    \/ /\ ~IsNull(templates[i])
       /\ \/ Kind(templates[i], "routes") \notin {"array", "undefined", "null"}
          \/ /\ Has(templates[i], "routes")
             /\ \E j \in 1..Len(templates[i].routes) : IsNull(templates[i].routes[j])

\* ImportNodes placing every node at the origin
ImportNodesAtOrigin(templates) ==
  Map(templates, LAMBDA template:
    [id |-> template.id, type |-> "template",
     position |-> Origin,
     data |-> template])

\* Index.tsx 559-566
ImportNodes(templates) ==
  Map(templates, LAMBDA template:
    [id |-> template.id, type |-> "template",
     position |-> Get(template, "position", Origin),
     data |-> template])

\* Index.tsx 569-591
ImportTemplateEdges(template, type) ==
  LET connected == SelectSeq(Get(template, "routes", <<>>),
                     LAMBDA route: Truthy(Get(route, "connectedTo", Undefined)))
  IN Map(connected, LAMBDA route:
       MakeEdge(template.id, route.id, route.connectedTo, type,
                ImportLabel(route), route.isRegex, route.id))

ImportEdges(templates, type) ==
  ConcatAll(Map(templates, LAMBDA template: ImportTemplateEdges(template, type)))

(***************************************************************************)
(* saveToHistory, Index.tsx 76-81. cn, ce, ch, ci are the nodes, edges,    *)
(* history and historyIndex of the closure the caller holds.               *)
(***************************************************************************)
NewHistory(cn, ce, ch, ci) ==
  Append(SubSeq(ch, 1, ci + 1), [nodes |-> cn, edges |-> ce])

\* SaveToHistory appending after the pointer without dropping what follows it
SaveToHistoryKeepsRedo(cn, ce, ch, ci) ==
  /\ history' = Append(ch, [nodes |-> cn, edges |-> ce])
  /\ historyIndex' = ci + 1

SaveToHistory(cn, ce, ch, ci) ==
  /\ history' = NewHistory(cn, ce, ch, ci)
  /\ historyIndex' = Len(NewHistory(cn, ce, ch, ci)) - 1


(***************************************************************************)
(* Frames.                                                                 *)
(***************************************************************************)
backendVars == <<isFlowLoaded, data, isLoading, flowParam, isSaving, inflight,
                 server, opened>>

\* a user event is handled: the component is mounted. lastOp records, beside
\* the handler and its arguments, the number of redo steps that were available
\* when it was called.
UserEvent(op, raised) ==
  /\ ~crashed
  /\ steps < budget
  /\ steps' = steps + 1
  /\ budget' = budget
  /\ lastOp' = Put(op, "redos", Len(history) - 1 - historyIndex)
  /\ toasts' = raised
  /\ crashed' = crashed

\* a callback of an asynchronous operation runs
Callback(op, raised) ==
  /\ ~crashed
  /\ steps' = steps
  /\ budget' = budget
  /\ lastOp' = op
  /\ toasts' = raised
  /\ crashed' = crashed

(***************************************************************************)
(* Editing the graph.                                                      *)
(***************************************************************************)
TemplateTypes == {"text", "button"}
RandomPositions == {[x |-> 120, y |-> 80]}

\* nodes.find((n) => n.id === id)
FindNode(nds, id) ==
  IF \E i \in 1..Len(nds) : nds[i].id = id
  THEN nds[CHOOSE i \in 1..Len(nds) :
             nds[i].id = id /\ \A j \in 1..(i - 1) : nds[j].id # id]
  ELSE Nil

\* template.routes?.find((r) => r.id === sourceHandle)
FindRoute(template, sourceHandle) ==
  LET routes == Get(template, "routes", <<>>) IN
  IF \E i \in 1..Len(routes) : routes[i].id = sourceHandle
  THEN routes[CHOOSE i \in 1..Len(routes) :
                routes[i].id = sourceHandle
                /\ \A j \in 1..(i - 1) : routes[j].id # sourceHandle]
  ELSE Nil

\* reactflow addEdge, called at Index.tsx 362: an edge with the same source,
\* target and handles is not added twice
AddEdge(edge, eds) ==
  IF \E i \in 1..Len(eds) :
       /\ eds[i].source = edge.source
       /\ eds[i].target = edge.target
       /\ eds[i].sourceHandle = edge.sourceHandle
  THEN eds
  ELSE Append(eds, edge)

\* Index.tsx 455-469
NewTemplate(type, t) ==
  [id |-> type \o "-" \o ToString(t),
   name |-> type \o "-" \o ToString(t),
   type |-> type,
   message |-> IF type = "text" THEN "" ELSE "{body,title,footer}",
   routes |-> <<>>]

\* Index.tsx 453-476
AddTemplate(type, t, position) ==
  /\ Len(nodes) < MaxNodes
  /\ UserEvent([op |-> "addTemplate", id |-> NewTemplate(type, t).id],
               <<Toast("success", "Added template")>>)
  /\ now' = t
  /\ nodes' = Append(nodes, [id |-> NewTemplate(type, t).id, type |-> "template",
                             position |-> position, data |-> NewTemplate(type, t)])
  /\ SaveToHistory(nodes, edges, history, historyIndex)
  /\ UNCHANGED <<edges, selectedTemplate, edgeType, readers, download>>
  /\ UNCHANGED backendVars

\* Index.tsx 366-409: the updater given to setNodes by onConnect
ConnectRoutes(nds, source, sourceHandle, target, t) ==
  Map(nds, LAMBDA node:
    IF node.id = source
    THEN LET template == node.data
             routes == Get(template, "routes", <<>>)
         IN IF sourceHandle = "default" /\ Len(routes) = 0
            THEN Put(node, "data",
                   Put(template, "routes",
                     <<[id |-> "route-" \o ToString(t), pattern |-> "",
                        isRegex |-> FALSE, connectedTo |-> target,
                        sourcePosition |-> "bottom", targetPosition |-> "top"]>>))
            ELSE Put(node, "data",
                   Put(template, "routes",
                     Map(routes, LAMBDA route:
                       IF route.id = sourceHandle
                       THEN Put(route, "connectedTo", target)
                       ELSE route)))
    ELSE node)

\* ghost: the id of the route that ConnectRoutes writes for this connection
ConnectOrigin(nds, source, sourceHandle, t) ==
  LET node == FindNode(nds, source) IN
  IF node = Nil THEN ""
  ELSE IF sourceHandle = "default" /\ Len(Get(node.data, "routes", <<>>)) = 0
       THEN "route-" \o ToString(t)
       ELSE IF FindRoute(node.data, sourceHandle) # Nil THEN sourceHandle ELSE ""

\* Index.tsx 333-361: the edge onConnect adds
ConnectEdge(nds, source, sourceHandle, target, type, t) ==
  LET sourceNode == FindNode(nds, source)
      route == IF sourceNode = Nil THEN Nil ELSE FindRoute(sourceNode.data, sourceHandle)
      routePattern == IF route = Nil THEN "" ELSE route.pattern
      isRegex == IF route = Nil THEN FALSE ELSE route.isRegex
  IN MakeEdge(source, sourceHandle, target, type,
              ConnectLabel(routePattern, isRegex), isRegex,
              ConnectOrigin(nds, source, sourceHandle, t))

\* Index.tsx 314-415. handle is params.sourceHandle, "" when the connection
\* comes from the handle without an id.
OnConnect(source, handle, target, t) ==
  LET sourceHandle == IF handle = "" THEN "default" ELSE handle IN
  /\ UserEvent([op |-> "connect", source |-> source,
                sourceHandle |-> sourceHandle, target |-> target,
                origin |-> ConnectOrigin(nodes, source, sourceHandle, t)], <<>>)
  /\ now' = t
  /\ edges' = AddEdge(ConnectEdge(nodes, source, sourceHandle, target, edgeType, t),
                      edges)
  /\ nodes' = ConnectRoutes(nodes, source, sourceHandle, target, t)
  /\ SaveToHistory(nodes, edges, history, historyIndex)
  /\ UNCHANGED <<selectedTemplate, edgeType, readers, download>>
  /\ UNCHANGED backendVars

\* Index.tsx 421-442: the updater given to setNodes for one deleted edge
ClearRoute(nds, edge) ==
  Map(nds, LAMBDA node:
    IF node.id = edge.source
    THEN Put(node, "data",
           Put(node.data, "routes",
             Map(Get(node.data, "routes", <<>>), LAMBDA route:
               IF route.id = edge.sourceHandle
               THEN Put(route, "connectedTo", Undefined)
               ELSE route)))
    ELSE node)

\* Index.tsx 419-443: edgesToDelete.forEach
RECURSIVE ClearRoutes(_, _)
ClearRoutes(nds, edgesToDelete) ==
  IF edgesToDelete = <<>> THEN nds
  ELSE ClearRoutes(ClearRoute(nds, Head(edgesToDelete)), Tail(edgesToDelete))

\* Index.tsx 417-447, with the removal of the edges by reactflow (onEdgesChange
\* of useEdgesState, Index.tsx 61 and 845) that the callback accompanies.
\* chosen is the set of positions of the selected edges.
OnEdgesDelete(chosen) ==
  LET edgesToDelete == SelectSeq(edges, LAMBDA e: \E i \in chosen : edges[i] = e) IN
  /\ chosen # {}
  /\ UserEvent([op |-> "edgesDelete", deleted |-> edgesToDelete], <<>>)
  /\ edges' = SelectSeq(edges, LAMBDA e: \A i \in chosen : edges[i] # e)
  /\ nodes' = ClearRoutes(nodes, edgesToDelete)
  /\ SaveToHistory(nodes, edges, history, historyIndex)
  /\ UNCHANGED <<selectedTemplate, edgeType, readers, download, now>>
  /\ UNCHANGED backendVars

\* Index.tsx 449-451
OnNodeClick(i) ==
  /\ UserEvent([op |-> "nodeClick", id |-> nodes[i].id], <<>>)
  /\ selectedTemplate' = nodes[i].data
  /\ UNCHANGED <<nodes, edges, edgeType, history, historyIndex, readers, download, now>>
  /\ UNCHANGED backendVars


(***************************************************************************)
(* The settings tab (unnamed/part_000) and updateTemplate.                 *)
(***************************************************************************)
EmptyObject == [k \in {} |-> TRUE]

\* part_000 12-20: the template updateSetting emits
UpdateSettingTemplate(template, key, value) ==
  Put(template, "settings", Put(Get(template, "settings", EmptyObject), key, value))

\* StartToggleTemplate keeping the report flag when start is switched on
StartToggleKeepsReport(template, checked) ==
  LET settings == Get(template, "settings", EmptyObject) IN
  Put(template, "settings",
      Put(Put(settings, "isStart", checked),
          "isReport", Get(settings, "isReport", FALSE)))

\* StartToggleTemplate writing isReport false also when start is switched off
StartToggleClearsReport(template, checked) ==
  LET settings == Get(template, "settings", EmptyObject) IN
  Put(template, "settings",
      Put(Put(settings, "isStart", checked), "isReport", FALSE))

\* part_000 53-63: the template handleStartToggle emits
StartToggleTemplate(template, checked) ==
  LET settings == Get(template, "settings", EmptyObject) IN
  Put(template, "settings",
      Put(Put(settings, "isStart", checked),
          "isReport", IF checked THEN FALSE ELSE Get(settings, "isReport", FALSE)))

\* part_000 65-75: the template handleReportToggle emits
ReportToggleTemplate(template, checked) ==
  LET settings == Get(template, "settings", EmptyObject) IN
  Put(template, "settings",
      Put(Put(settings, "isReport", checked),
          "isStart", IF checked THEN FALSE ELSE Get(settings, "isStart", FALSE)))

\* Index.tsx 480-484: the updater given to setNodes by updateTemplate
ReplaceTemplate(nds, template) ==
  Map(nds, LAMBDA node:
    IF node.id = template.id THEN Put(node, "data", template) ELSE node)

\* Index.tsx 478-489, called by the sidebar (Index.tsx 898) with op naming the
\* control that was used
UpdateTemplate(template, op) ==
  /\ UserEvent(op, <<>>)
  /\ nodes' = ReplaceTemplate(nodes, template)
  /\ selectedTemplate' = template
  /\ SaveToHistory(nodes, edges, history, historyIndex)
  /\ UNCHANGED <<edges, edgeType, readers, download, now>>
  /\ UNCHANGED backendVars

\* part_000 108-111: the "Is Start Template" switch of the selected template
HandleStartToggle(checked) ==
  /\ selectedTemplate # Nil
  /\ UpdateTemplate(StartToggleTemplate(selectedTemplate, checked),
                    [op |-> "startToggle", id |-> selectedTemplate.id,
                     checked |-> checked])

\* part_000 121-124: the "Is Report Template" switch
HandleReportToggle(checked) ==
  /\ selectedTemplate # Nil
  /\ UpdateTemplate(ReportToggleTemplate(selectedTemplate, checked),
                    [op |-> "reportToggle", id |-> selectedTemplate.id,
                     checked |-> checked])

\* part_000 24-51, 88-91: the switches that call updateSetting(key, checked)
SwitchKeys == {"typing"}
\* part_000 131-221: the inputs that call updateSetting(key, text)
InputKeys == {"trigger"}
InputTexts == {"hi"}

UpdateSetting(key, value) ==
  /\ selectedTemplate # Nil
  /\ UpdateTemplate(UpdateSettingTemplate(selectedTemplate, key, value),
                    IF key \in SwitchKeys
                    THEN [op |-> "updateSetting", id |-> selectedTemplate.id,
                          key |-> key, checked |-> value]
                    ELSE [op |-> "updateSetting", id |-> selectedTemplate.id,
                          key |-> key, text |-> value])

\* Index.tsx 491-505
DeleteTemplate ==
  /\ selectedTemplate # Nil
  /\ UserEvent([op |-> "deleteTemplate", id |-> selectedTemplate.id],
               <<Toast("success", "Template deleted")>>)
  /\ nodes' = SelectSeq(nodes, LAMBDA node: node.id # selectedTemplate.id)
  /\ edges' = SelectSeq(edges, LAMBDA edge:
                edge.source # selectedTemplate.id /\ edge.target # selectedTemplate.id)
  /\ selectedTemplate' = Nil
  /\ SaveToHistory(nodes, edges, history, historyIndex)
  /\ UNCHANGED <<edgeType, readers, download, now>>
  /\ UNCHANGED backendVars

(***************************************************************************)
(* Undo and redo, Index.tsx 507-523.                                       *)
(***************************************************************************)
CanUndo(ci) == ci > 0
CanRedo(ch, ci) == ci < Len(ch) - 1

\* the canvas and pointer [nodes, edges, historyIndex] handleUndo leaves
UndoResult(cn, ce, ch, ci) ==
  IF CanUndo(ci)
  THEN [nodes |-> ch[ci].nodes, edges |-> ch[ci].edges, historyIndex |-> ci - 1]
  ELSE [nodes |-> cn, edges |-> ce, historyIndex |-> ci]

\* RedoResult taking the snapshot under the pointer instead of the next one
RedoResultOffByOne(cn, ce, ch, ci) ==
  IF ci < Len(ch) - 1
  THEN [nodes |-> ch[ci + 1].nodes, edges |-> ch[ci + 1].edges, historyIndex |-> ci + 1]
  ELSE [nodes |-> cn, edges |-> ce, historyIndex |-> ci]

\* the canvas and pointer handleRedo leaves
RedoResult(cn, ce, ch, ci) ==
  IF CanRedo(ch, ci)
  THEN [nodes |-> ch[ci + 2].nodes, edges |-> ch[ci + 2].edges, historyIndex |-> ci + 1]
  ELSE [nodes |-> cn, edges |-> ce, historyIndex |-> ci]

HandleUndo ==
  /\ UserEvent([op |-> "undo"], <<>>)
  /\ nodes' = UndoResult(nodes, edges, history, historyIndex).nodes
  /\ edges' = UndoResult(nodes, edges, history, historyIndex).edges
  /\ historyIndex' = UndoResult(nodes, edges, history, historyIndex).historyIndex
  /\ UNCHANGED <<selectedTemplate, edgeType, history, readers, download, now>>
  /\ UNCHANGED backendVars

HandleRedo ==
  /\ UserEvent([op |-> "redo"], <<>>)
  /\ nodes' = RedoResult(nodes, edges, history, historyIndex).nodes
  /\ edges' = RedoResult(nodes, edges, history, historyIndex).edges
  /\ historyIndex' = RedoResult(nodes, edges, history, historyIndex).historyIndex
  /\ UNCHANGED <<selectedTemplate, edgeType, history, readers, download, now>>
  /\ UNCHANGED backendVars

(***************************************************************************)
(* Layout and edge type, Index.tsx 606-641.                                *)
(***************************************************************************)
AutoLayout ==
  /\ UserEvent([op |-> "autoLayout"], <<Toast("success", "Auto-layout applied")>>)
  /\ nodes' = [i \in 1..Len(nodes) |->
                 Put(nodes[i], "position",
                     [x |-> ((i - 1) % 3) * 300, y |-> ((i - 1) \div 3) * 200])]
  /\ SaveToHistory(nodes, edges, history, historyIndex)
  /\ UNCHANGED <<edges, selectedTemplate, edgeType, readers, download, now>>
  /\ UNCHANGED backendVars

EdgeTypes == <<"default", "straight", "step", "smoothstep">>

NextEdgeType(type) ==
  EdgeTypes[((CHOOSE i \in 1..Len(EdgeTypes) : EdgeTypes[i] = type) % Len(EdgeTypes)) + 1]

ToggleEdgeType ==
  /\ UserEvent([op |-> "toggleEdgeType"], <<Toast("success", "Switched edges")>>)
  /\ edgeType' = NextEdgeType(edgeType)
  /\ edges' = Map(edges, LAMBDA edge:
                Put(Put(edge, "type", NextEdgeType(edgeType)),
                    "data", Put(edge.data, "edgeType", NextEdgeType(edgeType))))
  /\ UNCHANGED <<nodes, selectedTemplate, history, historyIndex, readers, download, now>>
  /\ UNCHANGED backendVars


(***************************************************************************)
(* Texts: the flow_json field and the files of export and import. A text   *)
(* is empty, or does not parse as JSON, or parses to a value.              *)
(***************************************************************************)
EmptyText == [empty |-> TRUE, parses |-> FALSE]
GarbageText == [empty |-> FALSE, parses |-> FALSE]
JsonText(value) == [empty |-> FALSE, parses |-> TRUE, value |-> value]

\* JSON.stringify leaves out a key whose value is undefined
StringifyRoute(route) ==
  IF Has(route, "connectedTo") /\ route.connectedTo = Undefined
  THEN [k \in DOMAIN route \ {"connectedTo"} |-> route[k]]
  ELSE route

StringifyTemplate(template) ==
  IF Has(template, "routes")
  THEN Put(template, "routes", Map(template.routes, StringifyRoute))
  ELSE template

\* Index.tsx 527-530, 664-667: the templates of the canvas
CanvasTemplates(nds) ==
  Map(nds, LAMBDA node: StringifyTemplate(Put(node.data, "position", node.position)))

\* Index.tsx 526-534: the file exportFlow writes
ExportFile(nds) ==
  JsonText([templates |-> CanvasTemplates(nds), version |-> "1.0"])

\* Index.tsx 525-543
ExportFlow ==
  /\ UserEvent([op |-> "export"], <<Toast("success", "Flow exported successfully")>>)
  /\ download' = ExportFile(nodes)
  /\ UNCHANGED <<nodes, edges, selectedTemplate, edgeType, history, historyIndex,
                 readers, now>>
  /\ UNCHANGED backendVars

\* Index.tsx 557-591: the conversion of the file throws: JSON.parse, the
\* templates of null, map of something that is not an array, the id of a null
\* template, forEach of routes that are not an array, connectedTo of a null route
ImportThrows(file) ==
  \/ ~file.parses
  \/ /\ file.parses
     /\ \/ IsNull(file.value)
        \/ /\ ~IsNull(file.value)
           /\ \/ Kind(file.value, "templates") # "array"
              \/ /\ Has(file.value, "templates")
                 /\ \E i \in 1..Len(file.value.templates) :
                      LET template == file.value.templates[i] IN
                      \/ IsNull(template)
                      \/ /\ ~IsNull(template)
                         /\ \/ Kind(template, "routes") \notin {"array", "undefined", "null"}
                            \/ /\ Has(template, "routes")
                               /\ \E j \in 1..Len(template.routes) :
                                    IsNull(template.routes[j])

\* Index.tsx 549-554, 601: a file is chosen and its read starts; the onload
\* callback keeps the saveToHistory and edgeType of this render
HandleFileImport(file) ==
  /\ Len(readers) < MaxPendingReads
  /\ UserEvent([op |-> "fileChosen"], <<>>)
  /\ readers' = Append(readers,
                  [file |-> file, nodes |-> nodes, edges |-> edges,
                   history |-> history, historyIndex |-> historyIndex,
                   edgeType |-> edgeType])
  /\ UNCHANGED <<nodes, edges, selectedTemplate, edgeType, history, historyIndex,
                 download, now>>
  /\ UNCHANGED backendVars

\* ImportCatch falling back to an empty canvas, as the load does
ImportCatchClearsCanvas ==
  /\ toasts' = <<Toast("error", "Failed to import flow")>>
  /\ nodes' = <<>>
  /\ edges' = <<>>
  /\ UNCHANGED <<history, historyIndex>>

\* Index.tsx 597-599: the catch block of reader.onload
ImportCatch ==
  /\ toasts' = <<Toast("error", "Failed to import flow")>>
  /\ UNCHANGED <<nodes, edges, history, historyIndex>>

\* Index.tsx 593-596: the end of the try block of reader.onload
ImportCommit(r) ==
  /\ nodes' = ImportNodes(r.file.value.templates)
  /\ edges' = ImportEdges(r.file.value.templates, r.edgeType)
  /\ SaveToHistory(r.nodes, r.edges, r.history, r.historyIndex)
  /\ toasts' = <<Toast("success", "Flow imported successfully")>>

\* Index.tsx 555-600: reader.onload of the i-th pending read
ReaderOnload(i) ==
  /\ ~crashed
  /\ i \in 1..Len(readers)
  /\ readers' = Without(readers, i)
  /\ lastOp' = [op |-> "readerOnload", file |-> readers[i].file]
  /\ IF ImportThrows(readers[i].file) THEN ImportCatch ELSE ImportCommit(readers[i])
  /\ UNCHANGED <<selectedTemplate, edgeType, download, now, steps, budget, crashed>>
  /\ UNCHANGED backendVars


(***************************************************************************)
(* Loading the persisted document, Index.tsx 93-226.                       *)
(***************************************************************************)
\* String.prototype.toLowerCase on the names of the model
Lower(name) ==
  CASE name = "Sales" -> "sales"
    [] name = "SALES" -> "sales"
    [] name = "Help" -> "help"
    [] name = "HELP" -> "help"
    [] OTHER -> name

\* Index.tsx 124-127, 728-730: find / findIndex by lower-cased name. The
\* callback reads bot.name.toLowerCase(): it throws at a null bot and at a bot
\* without a name, when it gets that far. The result is [threw, index], index 0
\* when no bot matches.
FindBot(chatbots, param) ==
  LET stops == {i \in 1..Len(chatbots) :
                  \/ IsNull(chatbots[i])
                  \/ ~Has(chatbots[i], "name")
                  \/ Lower(chatbots[i].name) = Lower(param)}
      first == CHOOSE i \in stops : \A j \in stops : i <= j
  IN IF stops = {} THEN [threw |-> FALSE, index |-> 0]
     ELSE IF IsNull(chatbots[first]) \/ ~Has(chatbots[first], "name")
          THEN [threw |-> TRUE, index |-> 0]
          ELSE [threw |-> FALSE, index |-> first]

\* SelectFlow loading the first chatbot whatever the parameter names
SelectFlowFirstBot(flowData, param, chatbotName) ==
  IF Kind(flowData, "chatbots") = "array"
  THEN LET chatbots == flowData.chatbots
           found == IF param # "" THEN FindBot(chatbots, param)
                    ELSE [threw |-> FALSE, index |-> 0]
       IN IF found.threw \/ Len(chatbots) < 1 \/ IsNull(chatbots[1])
          THEN [threw |-> TRUE, warned |-> ~found.threw /\ param # "",
                flow |-> EmptyObject, name |-> ""]
          ELSE [threw |-> FALSE,
                warned |-> param # "" /\ found.index = 0,
                flow |-> [k \in DOMAIN chatbots[1] \ {"name"} |-> chatbots[1][k]],
                name |-> Get(chatbots[1], "name", Undefined)]
  ELSE [threw |-> FALSE, warned |-> FALSE, flow |-> flowData, name |-> chatbotName]

\* Index.tsx 120-159: the flow {templates, version} the effect picks and the
\* name it reports, [threw, warned, flow, name]; flow is what the variable
\* `flow` holds (a parsed value or the object built from a chatbot)
SelectFlow(flowData, param, chatbotName) ==
  IF Kind(flowData, "chatbots") = "array"
  THEN LET chatbots == flowData.chatbots
           found == IF param # "" THEN FindBot(chatbots, param)
                    ELSE [threw |-> FALSE, index |-> 0]
           index == IF found.index # 0 THEN found.index ELSE 1
       IN IF found.threw \/ Len(chatbots) < index \/ IsNull(chatbots[index])
          THEN [threw |-> TRUE, warned |-> ~found.threw /\ param # "",
                flow |-> EmptyObject, name |-> ""]
          ELSE [threw |-> FALSE,
                warned |-> param # "" /\ found.index = 0,
                flow |-> [k \in DOMAIN chatbots[index] \ {"name"} |-> chatbots[index][k]],
                name |-> Get(chatbots[index], "name", Undefined)]
  ELSE [threw |-> FALSE, warned |-> FALSE, flow |-> flowData, name |-> chatbotName]

\* LoadParseFailure resetting the canvas, as the branches for a new flow do
LoadParseFailureResets ==
  [ran |-> TRUE, threw |-> FALSE, sets |-> TRUE, nodes |-> <<>>, edges |-> <<>>,
   raised |-> <<Toast("error", "Failed to parse flow_json")>>]

\* Index.tsx 107-110: the catch block of the load: a toast, and the effect returns
LoadParseFailure ==
  [ran |-> TRUE, threw |-> FALSE, sets |-> FALSE, nodes |-> <<>>, edges |-> <<>>,
   raised |-> <<Toast("error", "Failed to parse flow_json")>>]

\* Index.tsx 97-217: what the effect does in a render with the fetched record
\* d and the flags loading and loaded: [ran, threw, sets, nodes, edges, raised]
LoadOutcome(d, loading, loaded, param, type) ==
  LET none == [ran |-> FALSE, threw |-> FALSE, sets |-> FALSE,
               nodes |-> <<>>, edges |-> <<>>, raised |-> <<>>]
      fresh(text) == [ran |-> TRUE, threw |-> FALSE, sets |-> TRUE,
                      nodes |-> <<>>, edges |-> <<>>,
                      raised |-> <<Toast("info", text)>>]
      throw(raised) == [ran |-> TRUE, threw |-> TRUE, sets |-> FALSE,
                        nodes |-> <<>>, edges |-> <<>>, raised |-> raised]
  IN
  IF d # Nil /\ ~loaded
  THEN IF ~d.flow_json.empty
       THEN IF ~d.flow_json.parses
            THEN LoadParseFailure
            ELSE IF IsNull(d.flow_json.value)
            THEN throw(<<>>)
            ELSE LET sel == SelectFlow(d.flow_json.value, param,
                                       Get(d, "chatbot_name", "untitled"))
                     warning == IF sel.warned
                                THEN <<Toast("warning", "Chatbot not found")>>
                                ELSE <<>>
                 IN IF sel.threw THEN throw(warning)
                    ELSE IF TruthyKind(Kind(sel.flow, "templates"))
                    THEN IF Kind(sel.flow, "templates") # "array"
                            \/ LoadThrows(sel.flow.templates)
                         THEN throw(warning)
                         ELSE [ran |-> TRUE, threw |-> FALSE, sets |-> TRUE,
                               nodes |-> LoadNodes(sel.flow.templates),
                               edges |-> LoadEdges(sel.flow.templates, type),
                               raised |-> warning \o
                                 <<Toast("success", "ChatBot flow loaded")>>]
                    ELSE [ran |-> TRUE, threw |-> FALSE, sets |-> FALSE,
                          nodes |-> <<>>, edges |-> <<>>,
                          raised |-> warning \o
                            <<Toast("error", "Invalid flow structure")>>]
       ELSE fresh("New flow. Start building!")
  ELSE IF d = Nil /\ ~loading /\ ~loaded
       THEN fresh("Create a new chatbot to continue")
       ELSE none


(***************************************************************************)
(* Building the document to save, Index.tsx 657-756.                       *)
(***************************************************************************)
\* o[k] = v for an array v: whatever was stored at k is replaced
SetArray(o, k, v) == Put([j \in DOMAIN o \ {k \o "Kind"} |-> o[j]], k, v)

\* data?.chatbot_name || "Default Bot"
ChatbotNameOr(d, default) ==
  IF d # Nil /\ Has(d, "chatbot_name") /\ d.chatbot_name # ""
  THEN d.chatbot_name ELSE default

\* Index.tsx 686, 708, 717: flowParam || data?.chatbot_name || "Default Bot"
FreshBotName(d, param) ==
  IF param # "" THEN param ELSE ChatbotNameOr(d, "Default Bot")

\* Index.tsx 671-674 with one pushed entry: a new multi-chatbot document
FreshDocument(nds, d, param) ==
  [chatbots |-> <<[name |-> FreshBotName(d, param), templates |-> CanvasTemplates(nds)]>>,
   version |-> "1.0"]

\* Index.tsx 694-705: the existing document in the multi-chatbot shape
ExistingDocument(flowData, d) ==
  IF Kind(flowData, "chatbots") = "array"
  THEN flowData
  ELSE [chatbots |-> <<[name |-> ChatbotNameOr(d, "Default Bot"),
                        templates |-> flowData.templates]>>,
        version |-> IF Get(flowData, "version", "") # ""
                    THEN flowData.version ELSE "1.0"]

\* UpdateChatbots that always adds an entry, also when a chatbot matches
UpdateChatbotsAppends(chatbots, templates, d, param) ==
  Append(chatbots,
         [name |-> IF param # "" THEN param ELSE ChatbotNameOr(d, "Default Bot"),
          templates |-> templates])

\* UpdateChatbots replacing the templates of every chatbot the parameter names
UpdateChatbotsEveryMatch(chatbots, templates, d, param) ==
  IF param # ""
  THEN IF \E i \in 1..Len(chatbots) : Lower(chatbots[i].name) = Lower(param)
       THEN [i \in 1..Len(chatbots) |->
               IF Lower(chatbots[i].name) = Lower(param)
               THEN SetArray(chatbots[i], "templates", templates)
               ELSE chatbots[i]]
       ELSE Append(chatbots, [name |-> param, templates |-> templates])
  ELSE IF Len(chatbots) > 0
       THEN [i \in 1..Len(chatbots) |->
               IF i = 1 THEN SetArray(chatbots[i], "templates", templates)
               ELSE chatbots[i]]
       ELSE <<[name |-> ChatbotNameOr(d, "Default Bot"), templates |-> templates]>>

\* Index.tsx 725-753: the entry of the edited chatbot is replaced or added
UpdateChatbots(chatbots, templates, d, param) ==
  IF param # ""
  THEN IF FindBot(chatbots, param).index # 0
       THEN [i \in 1..Len(chatbots) |->
               IF i = FindBot(chatbots, param).index
               THEN SetArray(chatbots[i], "templates", templates)
               ELSE chatbots[i]]
       ELSE Append(chatbots, [name |-> param, templates |-> templates])
  ELSE IF Len(chatbots) > 0
       THEN [i \in 1..Len(chatbots) |->
               IF i = 1 THEN SetArray(chatbots[i], "templates", templates)
               ELSE chatbots[i]]
       ELSE <<[name |-> ChatbotNameOr(d, "Default Bot"), templates |-> templates]>>

\* the existing document is used (Index.tsx 694-705), not replaced by a new one
UsesExisting(d) ==
  /\ d # Nil
  /\ ~d.flow_json.empty
  /\ d.flow_json.parses
  /\ ~IsNull(d.flow_json.value)
  /\ \/ Kind(d.flow_json.value, "chatbots") = "array"
     \/ Kind(d.flow_json.value, "templates") = "array"

\* getCurrentFlowJson throws a TypeError: chatbots of null (695), the name of a
\* null or nameless bot (729), the templates of a null first bot (745)
GetCurrentFlowJsonThrows(d, param) ==
  /\ d # Nil
  /\ ~d.flow_json.empty
  /\ d.flow_json.parses
  /\ \/ IsNull(d.flow_json.value)
     \/ /\ UsesExisting(d)
        /\ LET chatbots == ExistingDocument(d.flow_json.value, d).chatbots IN
           IF param # "" THEN FindBot(chatbots, param).threw
           ELSE Len(chatbots) > 0 /\ IsNull(chatbots[1])

\* Index.tsx 657-756: the value getCurrentFlowJson returns as JSON text
GetCurrentFlowJson(nds, d, param) ==
  IF UsesExisting(d)
  THEN LET existing == ExistingDocument(d.flow_json.value, d) IN
       Put(existing, "chatbots",
           UpdateChatbots(existing.chatbots, CanvasTemplates(nds), d, param))
  ELSE FreshDocument(nds, d, param)


\* DataArrives with a load effect that does not look at isFlowLoaded
DataArrivesReloads(d, before) ==
  LET out == LoadOutcome(d, FALSE, FALSE, flowParam, edgeType) IN
  /\ data' = d
  /\ isLoading' = FALSE
  /\ IF GetCurrentFlowJsonThrows(d, flowParam)
     THEN /\ crashed' = TRUE
          /\ toasts' = before
          /\ UNCHANGED <<nodes, edges, history, historyIndex, isFlowLoaded>>
     ELSE /\ crashed' = out.threw
          /\ toasts' = before \o out.raised
          /\ isFlowLoaded' = (isFlowLoaded \/ (out.ran /\ ~out.threw))
          /\ IF out.sets
             THEN /\ nodes' = out.nodes
                  /\ edges' = out.edges
                  /\ SaveToHistory(nodes, edges, history, historyIndex)
             ELSE UNCHANGED <<nodes, edges, history, historyIndex>>

(***************************************************************************)
(* The fetched record arrives: the component renders with it (the render   *)
(* evaluates getCurrentFlowJson, Index.tsx 909) and the load effect runs.  *)
(* An error that escapes the render or the effect unmounts the tree.       *)
(***************************************************************************)
DataArrives(d, before) ==
  LET out == LoadOutcome(d, FALSE, isFlowLoaded, flowParam, edgeType) IN
  /\ data' = d
  /\ isLoading' = FALSE
  /\ IF GetCurrentFlowJsonThrows(d, flowParam)
     THEN /\ crashed' = TRUE
          /\ toasts' = before
          /\ UNCHANGED <<nodes, edges, history, historyIndex, isFlowLoaded>>
     ELSE /\ crashed' = out.threw
          /\ toasts' = before \o out.raised
          /\ isFlowLoaded' = (isFlowLoaded \/ (out.ran /\ ~out.threw))
          /\ IF out.sets
             THEN /\ nodes' = out.nodes
                  /\ edges' = out.edges
                  /\ SaveToHistory(nodes, edges, history, historyIndex)
             ELSE UNCHANGED <<nodes, edges, history, historyIndex>>

\* useFrappeGetDoc, Index.tsx 84-85: the first fetch answers, with the stored
\* record or with an error
FetchDone(ok) ==
  /\ ~crashed
  /\ isLoading
  /\ lastOp' = [op |-> "fetchDone", ok |-> ok]
  /\ DataArrives(IF ok THEN server ELSE Nil, <<>>)
  /\ UNCHANGED <<selectedTemplate, edgeType, flowParam, isSaving, inflight, server,
                 opened, readers, download, now, steps, budget>>

(***************************************************************************)
(* Saving, Index.tsx 758-822.                                              *)
(***************************************************************************)
\* Index.tsx 759-773: the flag is set and updateDoc is called with the document
StartSave ==
  /\ isSaving' = TRUE
  /\ inflight' = IF GetCurrentFlowJsonThrows(data, flowParam)
                 THEN inflight
                 ELSE Append(inflight,
                        [flow_json |-> JsonText(GetCurrentFlowJson(nodes, data, flowParam)),
                         stage |-> "updateDoc"])

\* Index.tsx 758-785, the synchronous part
SaveCurrentFlowJson ==
  /\ Len(inflight) < MaxInFlight
  /\ UserEvent([op |-> "save"], <<>>)
  /\ StartSave
  /\ UNCHANGED <<nodes, edges, selectedTemplate, edgeType, history, historyIndex,
                 isFlowLoaded, data, isLoading, flowParam, server, opened,
                 readers, download, now>>

\* Index.tsx 813-822
PreviewCurrentFlowJson ==
  /\ Len(inflight) < MaxInFlight
  /\ UserEvent([op |-> "preview"],
               <<Toast("info", "Saving flow before preview...")>> \o
               (IF data # Nil /\ Get(data, "env", "") = "local"
                THEN <<>>
                ELSE <<Toast("warning", "Only local environment can run on Emulator")>>))
  /\ StartSave
  /\ opened' = IF data # Nil /\ Get(data, "env", "") = "local"
               THEN opened + 1 ELSE opened
  /\ UNCHANGED <<nodes, edges, selectedTemplate, edgeType, history, historyIndex,
                 isFlowLoaded, data, isLoading, flowParam, server,
                 readers, download, now>>

\* Index.tsx 774-776: updateDoc resolved: the backend stored the document; the
\* success toast is raised and mutate() starts the refetch
SaveResolve(i) ==
  /\ i \in 1..Len(inflight)
  /\ inflight[i].stage = "updateDoc"
  /\ Callback([op |-> "saveResolved"], <<Toast("success", "Flow saved!")>>)
  /\ server' = Put(server, "flow_json", inflight[i].flow_json)
  /\ inflight' = [inflight EXCEPT ![i].stage = "mutate"]
  /\ UNCHANGED <<nodes, edges, selectedTemplate, edgeType, history, historyIndex,
                 isFlowLoaded, data, isLoading, flowParam, isSaving, opened,
                 readers, download, now>>

\* Index.tsx 776, 782-784: mutate() resolved with the refetched record, then
\* the finally block
MutateDone(i) ==
  /\ ~crashed
  /\ i \in 1..Len(inflight)
  /\ inflight[i].stage = "mutate"
  /\ lastOp' = [op |-> "mutateDone"]
  /\ DataArrives(server, <<>>)
  /\ isSaving' = FALSE
  /\ inflight' = Without(inflight, i)
  /\ UNCHANGED <<selectedTemplate, edgeType, flowParam, server, opened,
                 readers, download, now, steps, budget>>

\* SaveCatch with a rollback of the canvas to the snapshot under the pointer
SaveCatchRollsBack ==
  /\ toasts' = <<Toast("error", "Failed to save flow")>>
  /\ nodes' = IF historyIndex >= 0 THEN history[historyIndex + 1].nodes ELSE nodes
  /\ edges' = IF historyIndex >= 0 THEN history[historyIndex + 1].edges ELSE edges
  /\ UNCHANGED <<selectedTemplate, history, historyIndex>>

\* Index.tsx 778-781: the catch block of the save
SaveCatch ==
  /\ toasts' = <<Toast("error", "Failed to save flow")>>
  /\ UNCHANGED <<nodes, edges, selectedTemplate, history, historyIndex>>

\* Index.tsx 778-784: updateDoc rejected: the catch block, then the finally block
SaveReject(i) ==
  /\ ~crashed
  /\ i \in 1..Len(inflight)
  /\ inflight[i].stage = "updateDoc"
  /\ lastOp' = [op |-> "saveRejected"]
  /\ SaveCatch
  /\ isSaving' = FALSE
  /\ inflight' = Without(inflight, i)
  /\ UNCHANGED <<edgeType, isFlowLoaded, data, isLoading, flowParam, server, opened,
                 readers, download, now, steps, budget, crashed>>


(***************************************************************************)
(* The documents and files of the model.                                   *)
(***************************************************************************)
TemplateA ==
  [id |-> "a", name |-> "Welcome", type |-> "text", message |-> "",
   routes |-> <<[id |-> "r1", pattern |-> ".*", isRegex |-> TRUE, connectedTo |-> "b"]>>,
   settings |-> [isStart |-> TRUE],
   position |-> [x |-> 40, y |-> 60]]

TemplateB ==
  [id |-> "b", name |-> "Report", type |-> "button", message |-> "{body,title,footer}",
   routes |-> <<>>,
   settings |-> [isReport |-> TRUE]]

LegacyFlow == [templates |-> <<TemplateA, TemplateB>>, version |-> "1.0"]

Config(flowJson) == [chatbot_name |-> "Bot", env |-> "local", flow_json |-> flowJson]

\* the stored records the editor is started on
EditorDocs == {Config(JsonText(LegacyFlow)), Config(EmptyText)}

\* the files offered to the import
MalformedFiles ==
  {GarbageText,
   JsonText(JsonNull),
   JsonText([version |-> "1.0"]),
   JsonText([templatesKind |-> "string", version |-> "1.0"]),
   JsonText([templates |-> <<TemplateB, JsonNull>>, version |-> "1.0"]),
   JsonText([templates |-> <<[id |-> "c", name |-> "c", type |-> "text",
                              message |-> "", routesKind |-> "string"]>>]),
   JsonText([templates |-> <<[id |-> "c", name |-> "c", type |-> "text",
                              message |-> "", routes |-> <<JsonNull>>]>>])}

ImportFiles == {JsonText([templates |-> <<TemplateB>>, version |-> "1.0"])}
               \cup MalformedFiles
               \cup (IF download = Nil THEN {} ELSE {download})

(***************************************************************************)
(* The editor: the canvas, its history, the sidebar, export and import.    *)
(***************************************************************************)
InitCommon ==
  /\ nodes = <<>>
  /\ edges = <<>>
  /\ selectedTemplate = Nil
  /\ edgeType = "default"
  /\ history = <<>>
  /\ historyIndex = -1
  /\ isFlowLoaded = FALSE
  /\ data = Nil
  /\ isLoading = TRUE
  /\ isSaving = FALSE
  /\ inflight = <<>>
  /\ readers = <<>>
  /\ download = Nil
  /\ opened = 0
  /\ crashed = FALSE
  /\ now = 0
  /\ toasts = <<>>
  /\ lastOp = [op |-> "mount"]
  /\ steps = 0

Init ==
  /\ InitCommon
  /\ budget = MaxSteps
  /\ flowParam = ""
  /\ server \in EditorDocs

Next ==
  \/ \E ok \in BOOLEAN : FetchDone(ok)
  \/ \E type \in TemplateTypes, t \in now..MaxClock, position \in RandomPositions :
       AddTemplate(type, t, position)
  \/ \E i \in 1..Len(nodes), j \in 1..Len(nodes), t \in now..MaxClock :
       \E handle \in {""} \cup {r.id : r \in Range(Get(nodes[i].data, "routes", <<>>))} :
         OnConnect(nodes[i].id, handle, nodes[j].id, t)
  \/ \E chosen \in SUBSET (1..Len(edges)) : OnEdgesDelete(chosen)
  \/ \E i \in 1..Len(nodes) : OnNodeClick(i)
  \/ \E checked \in BOOLEAN : HandleStartToggle(checked)
  \/ \E checked \in BOOLEAN : HandleReportToggle(checked)
  \/ \E key \in SwitchKeys, value \in BOOLEAN : UpdateSetting(key, value)
  \/ \E key \in InputKeys, value \in InputTexts : UpdateSetting(key, value)
  \/ DeleteTemplate
  \/ HandleUndo
  \/ HandleRedo
  \/ AutoLayout
  \/ ToggleEdgeType

Spec == Init /\ [][Next]_vars


(***************************************************************************)
(* The history alone: the operations that append snapshots, undo and redo. *)
(***************************************************************************)
HistoryInit ==
  /\ InitCommon
  /\ budget = MaxHistorySteps
  /\ flowParam = ""
  /\ server \in EditorDocs

HistoryNext ==
  \/ \E ok \in BOOLEAN : FetchDone(ok)
  \/ \E type \in TemplateTypes, t \in now..MaxClock, position \in RandomPositions :
       AddTemplate(type, t, position)
  \/ \E chosen \in SUBSET (1..Len(edges)) : OnEdgesDelete(chosen)
  \/ AutoLayout
  \/ HandleUndo
  \/ HandleRedo

HistorySpec == HistoryInit /\ [][HistoryNext]_vars

(***************************************************************************)
(* The sidebar alone: templates are selected and their settings edited.    *)
(***************************************************************************)
SidebarNext ==
  \/ \E ok \in BOOLEAN : FetchDone(ok)
  \/ \E i \in 1..Len(nodes) : OnNodeClick(i)
  \/ \E checked \in BOOLEAN : HandleStartToggle(checked)
  \/ \E checked \in BOOLEAN : HandleReportToggle(checked)
  \/ \E key \in SwitchKeys, value \in BOOLEAN : UpdateSetting(key, value)
  \/ \E key \in InputKeys, value \in InputTexts : UpdateSetting(key, value)

SidebarSpec == Init /\ [][SidebarNext]_vars

(***************************************************************************)
(* Export and import beside the edits of the graph.                        *)
(***************************************************************************)
ImportNext ==
  \/ \E ok \in BOOLEAN : FetchDone(ok)
  \/ \E type \in TemplateTypes, t \in now..MaxClock, position \in RandomPositions :
       AddTemplate(type, t, position)
  \/ \E i \in 1..Len(nodes), j \in 1..Len(nodes), t \in now..MaxClock :
       \E handle \in {""} \cup {r.id : r \in Range(Get(nodes[i].data, "routes", <<>>))} :
         OnConnect(nodes[i].id, handle, nodes[j].id, t)
  \/ \E chosen \in SUBSET (1..Len(edges)) : OnEdgesDelete(chosen)
  \/ ExportFlow
  \/ \E file \in ImportFiles : HandleFileImport(file)
  \/ \E i \in 1..Len(readers) : ReaderOnload(i)

ImportInit ==
  /\ InitCommon
  /\ budget = MaxImportSteps
  /\ flowParam = ""
  /\ server \in EditorDocs

ImportSpec == ImportInit /\ [][ImportNext]_vars

(***************************************************************************)
(* Loading and saving, over the shapes of the stored document and the      *)
(* values of the URL parameter.                                            *)
(***************************************************************************)
Bot(name, templates) == [name |-> name, templates |-> templates]

StoredTexts ==
  {EmptyText,
   GarbageText,
   JsonText(JsonNull),
   JsonText([foo |-> "bar"]),
   JsonText([templatesKind |-> "string"]),
   JsonText([templatesKind |-> "null", version |-> "1.0"]),
   JsonText(LegacyFlow),
   JsonText([chatbots |-> <<Bot("Sales", <<TemplateA, TemplateB>>),
                            Bot("Help", <<TemplateB>>)>>,
             version |-> "2.0"]),
   JsonText([chatbots |-> <<>>, version |-> "1.0"])}

FlowParams == {"", "sales", "Other"}

SaveInit ==
  /\ InitCommon
  /\ budget = MaxSaveSteps
  /\ flowParam \in FlowParams
  /\ server \in {Config(text) : text \in StoredTexts}
              \cup {[env |-> "live", flow_json |-> JsonText(LegacyFlow)]}

SaveNext ==
  \/ \E ok \in BOOLEAN : FetchDone(ok)
  \/ \E type \in TemplateTypes, t \in now..MaxClock, position \in RandomPositions :
       AddTemplate(type, t, position)
  \/ \E i \in 1..Len(nodes) : OnNodeClick(i)
  \/ SaveCurrentFlowJson
  \/ PreviewCurrentFlowJson
  \/ \E i \in 1..Len(inflight) : SaveResolve(i)
  \/ \E i \in 1..Len(inflight) : MutateDone(i)
  \/ \E i \in 1..Len(inflight) : SaveReject(i)

SaveSpec == SaveInit /\ [][SaveNext]_vars

(***************************************************************************)
(* Saving what was loaded and edited: the stored shapes, with a document   *)
(* of three chatbots of which two have the same name in another letter     *)
(* case, and templates added to and deleted from the loaded canvas.        *)
(***************************************************************************)
ThreeBots ==
  [chatbots |-> <<Bot("Sales", <<TemplateA, TemplateB>>),
                  Bot("Help", <<TemplateB>>),
                  Bot("HELP", <<TemplateA>>)>>,
   version |-> "2.0"]

RoundTripTexts ==
  {EmptyText, GarbageText, JsonText([foo |-> "bar"]), JsonText(LegacyFlow),
   JsonText(ThreeBots)}

RoundTripParams == {"", "sales", "help", "Other"}

RoundTripInit ==
  /\ InitCommon
  /\ budget = MaxRoundTripSteps
  /\ flowParam \in RoundTripParams
  /\ server \in {Config(text) : text \in RoundTripTexts}

RoundTripNext ==
  \/ \E ok \in BOOLEAN : FetchDone(ok)
  \/ \E t \in now..MaxClock, position \in RandomPositions : AddTemplate("text", t, position)
  \/ \E i \in 1..Len(nodes) : OnNodeClick(i)
  \/ DeleteTemplate
  \/ SaveCurrentFlowJson
  \/ \E i \in 1..Len(inflight) : SaveResolve(i)
  \/ \E i \in 1..Len(inflight) : MutateDone(i)

RoundTripSpec == RoundTripInit /\ [][RoundTripNext]_vars

(***************************************************************************)
(* Loading and importing: the documents the conversion to nodes and edges  *)
(* distinguishes, the values of the URL parameter, and connections drawn   *)
(* on the canvas that was loaded.                                          *)
(***************************************************************************)
TemplateC ==
  [id |-> "c", name |-> "Menu", type |-> "text", message |-> "",
   routes |-> <<[id |-> "r1", pattern |-> "hello", isRegex |-> FALSE, connectedTo |-> "d"],
                [id |-> "r2", pattern |-> ".*", isRegex |-> FALSE],
                [id |-> "r3", pattern |-> "h.*", isRegex |-> TRUE, connectedTo |-> ""],
                [id |-> "r4", pattern |-> "", isRegex |-> TRUE, connectedTo |-> "c"]>>,
   position |-> [x |-> 10, y |-> 20]]

TemplateD == [id |-> "d", name |-> "End", type |-> "text", message |-> ""]

\* documents in the single-flow shape {templates, version}
SingleFlows ==
  {LegacyFlow,
   [templates |-> <<TemplateC, TemplateD>>, version |-> "1.0"],
   [templates |-> <<>>, version |-> "1.0"]}

\* documents in the multi-chatbot shape {chatbots, version}
MultiFlows ==
  {[chatbots |-> <<Bot("Sales", <<TemplateA, TemplateB>>),
                   Bot("Help", <<TemplateB>>),
                   Bot("HELP", <<TemplateC, TemplateD>>)>>,
    version |-> "2.0"],
   [chatbots |-> <<>>, version |-> "1.0"]}

LoadParams == {"", "sales", "help", "Other"}

LoadFiles == {JsonText(flow) : flow \in SingleFlows} \cup {JsonText([version |-> "1.0"])}

LoadInit ==
  /\ InitCommon
  /\ budget = MaxLoadSteps
  /\ flowParam \in LoadParams
  /\ server \in {Config(JsonText(flow)) : flow \in SingleFlows \cup MultiFlows}

LoadNext ==
  \/ \E ok \in BOOLEAN : FetchDone(ok)
  \/ \E i \in 1..Len(nodes), j \in 1..Len(nodes), t \in now..MaxClock :
       \E handle \in {""} \cup {r.id : r \in Range(Get(nodes[i].data, "routes", <<>>))} :
         OnConnect(nodes[i].id, handle, nodes[j].id, t)
  \/ \E file \in LoadFiles : HandleFileImport(file)
  \/ \E i \in 1..Len(readers) : ReaderOnload(i)

LoadSpec == LoadInit /\ [][LoadNext]_vars


(***************************************************************************)
(* The claims.                                                             *)
(***************************************************************************)
\* the edges as the program holds them, without the ghost field
Visible(eds) == Map(eds, LAMBDA e: [k \in DOMAIN e \ {"origin"} |-> e[k]])

HasToast(kind) == \E i \in 1..Len(toasts) : toasts[i].kind = kind

\* C1: wherever undo is enabled (historyIndex > 0), handleUndo followed by
\* handleRedo leaves the nodes and edges of the canvas as they were before the
\* undo, and leaves historyIndex unchanged.
C1_UndoThenRedoRestoresCanvas ==
  (~crashed /\ CanUndo(historyIndex)) =>
    LET undone == UndoResult(nodes, edges, history, historyIndex)
        redone == RedoResult(undone.nodes, undone.edges, history, undone.historyIndex)
    IN /\ redone.nodes = nodes
       /\ Visible(redone.edges) = Visible(edges)
       /\ redone.historyIndex = historyIndex

\* a template as a reader of its keys sees it: a key holding undefined is a
\* missing key, and the copy of the position kept inside the data is left out
SeenTemplate(template) ==
  LET t == StringifyTemplate(template) IN [k \in DOMAIN t \ {"position"} |-> t[k]]

SeenNodes(nds) ==
  {[id |-> nds[i].id, position |-> nds[i].position, data |-> SeenTemplate(nds[i].data)] :
     i \in 1..Len(nds)}

SeenEdges(eds) ==
  {[source |-> eds[i].source, sourceHandle |-> eds[i].sourceHandle,
    target |-> eds[i].target] : i \in 1..Len(eds)}

\* C2: for every canvas the editor operations reach, the file exportFlow writes
\* is imported by handleFileImport into the same set of nodes (ids, data,
\* positions) and the same set of edges (source, source handle, target).
C2_ExportImportRoundTrip ==
  ~crashed =>
    /\ ~ImportThrows(ExportFile(nodes))
    /\ SeenNodes(ImportNodes(ExportFile(nodes).value.templates)) = SeenNodes(nodes)
    /\ SeenEdges(ImportEdges(ExportFile(nodes).value.templates, edgeType))
         = SeenEdges(edges)

\* C3: after onEdgesDelete is called with an edge, the route from which the
\* edge originated (the route of the source template that was written when the
\* edge was made) has connectedTo undefined.
C3_DeletedEdgeClearsItsRoute ==
  lastOp.op = "edgesDelete" =>
    \A d \in 1..Len(lastOp.deleted) :
      \A i \in 1..Len(nodes) :
        nodes[i].id = lastOp.deleted[d].source =>
          \A j \in 1..Len(Get(nodes[i].data, "routes", <<>>)) :
            nodes[i].data.routes[j].id = lastOp.deleted[d].origin =>
              Get(nodes[i].data.routes[j], "connectedTo", Undefined) = Undefined


\* C4: in every reachable state at most one updateDoc request issued by
\* saveCurrentFlowJson (directly or through preview) is neither resolved nor
\* rejected.
C4_AtMostOneSaveInFlight ==
  Cardinality({i \in 1..Len(inflight) : inflight[i].stage = "updateDoc"}) <= 1

\* C5: when the updateDoc request of a save rejects, an error toast is raised
\* and the nodes, edges, selected template, history and historyIndex are what
\* they were when the rejection arrived.
C5_FailedSaveLeavesStateUnchanged ==
  [][lastOp'.op = "saveRejected" =>
       /\ \E i \in 1..Len(toasts') : toasts'[i].kind = "error"
       /\ nodes' = nodes
       /\ edges' = edges
       /\ selectedTemplate' = selectedTemplate
       /\ history' = history
       /\ historyIndex' = historyIndex]_vars

\* a save was rejected while the canvas had moved on from the snapshot under
\* the history pointer and a template was selected
C5_Witness ==
  /\ lastOp.op = "saveRejected"
  /\ HasToast("error")
  /\ selectedTemplate # Nil
  /\ historyIndex >= 0
  /\ nodes # history[historyIndex + 1].nodes

\* C6: when handleFileImport reads a file that is not valid JSON, or valid JSON
\* without a usable templates array, or with a template or route entry whose
\* processing fails, the error toast is raised and nodes, edges, history and
\* historyIndex stay as they were.
C6_MalformedImportLeavesCanvasUnchanged ==
  [][(lastOp'.op = "readerOnload" /\ lastOp'.file \in MalformedFiles) =>
       /\ \E i \in 1..Len(toasts') : toasts'[i].kind = "error"
       /\ nodes' = nodes
       /\ edges' = edges
       /\ history' = history
       /\ historyIndex' = historyIndex]_vars

\* a file whose last route entry is null was read over a canvas with nodes
C6_Witness ==
  /\ lastOp.op = "readerOnload"
  /\ lastOp.file = JsonText([templates |-> <<[id |-> "c", name |-> "c", type |-> "text",
                                              message |-> "", routes |-> <<JsonNull>>]>>])
  /\ HasToast("error")
  /\ nodes # <<>>
  /\ edges # <<>>


\* the flow_json of the fetched record is not valid JSON
ParseFailed(d) == d # Nil /\ ~d.flow_json.empty /\ ~d.flow_json.parses

\* the request issued last carries a new document {chatbots: [one entry],
\* version: "1.0"} whose entry holds the templates of the canvas
SavesFreshDocument ==
  /\ inflight # <<>>
  /\ inflight[Len(inflight)].flow_json.parses
  /\ LET document == inflight[Len(inflight)].flow_json.value IN
     /\ DOMAIN document = {"chatbots", "version"}
     /\ document.version = "1.0"
     /\ Len(document.chatbots) = 1
     /\ DOMAIN document.chatbots[1] = {"name", "templates"}
     /\ document.chatbots[1].templates =
          [i \in 1..Len(nodes) |->
             StringifyTemplate(Put(nodes[i].data, "position", nodes[i].position))]

\* C7, as claimed: when the flow_json fails JSON.parse during the initial load,
\* an error toast is raised, the canvas has no nodes and no edges, the load is
\* not retried, and a later save writes a new document built only from the
\* current canvas.
C7_ParseFailureLeavesEmptyCanvas ==
  /\ (lastOp.op = "fetchDone" /\ ParseFailed(data)) =>
       /\ HasToast("error")
       /\ nodes = <<>>
       /\ edges = <<>>
       /\ isFlowLoaded
  /\ (lastOp.op \in {"save", "preview"} /\ ParseFailed(data)) => SavesFreshDocument

\* C7, as amended: when the flow_json fails JSON.parse during the initial load,
\* an error toast is raised and the load leaves the canvas as it was (without
\* nodes and edges when nothing was added while the fetch was pending); no
\* later arrival of the record loads it; a later save writes a new document
\* built only from the current canvas.
C7_ParseFailureLeavesCanvasAsItWas ==
  /\ [][(lastOp'.op = "fetchDone" /\ ParseFailed(data')) =>
          /\ \E i \in 1..Len(toasts') : toasts'[i].kind = "error"
          /\ nodes' = nodes
          /\ edges' = edges
          /\ (steps = 0 => nodes' = <<>> /\ edges' = <<>>)
          /\ isFlowLoaded'
          /\ ~crashed']_vars
  /\ [][(isFlowLoaded /\ lastOp'.op \in {"fetchDone", "mutateDone"}) =>
          /\ nodes' = nodes
          /\ edges' = edges
          /\ history' = history
          /\ historyIndex' = historyIndex]_vars
  /\ []((lastOp.op \in {"save", "preview"} /\ ParseFailed(data)) => SavesFreshDocument)

\* a save issued after the parse of the stored document failed, with a
\* template on the canvas
C7_Witness ==
  /\ lastOp.op = "save"
  /\ ParseFailed(data)
  /\ isFlowLoaded
  /\ nodes # <<>>
  /\ SavesFreshDocument

\* the stored document parses to an object that has neither a chatbots array
\* nor a templates array
UnknownShape(d) ==
  /\ d # Nil
  /\ ~d.flow_json.empty
  /\ d.flow_json.parses
  /\ ~IsNull(d.flow_json.value)
  /\ Kind(d.flow_json.value, "chatbots") # "array"
  /\ Kind(d.flow_json.value, "templates") # "array"

\* C8: when the stored flow_json parses but has neither a chatbots array nor a
\* templates array, the load leaves an empty canvas with a notification, and
\* the next save writes a new document {chatbots: [one entry], version: "1.0"}
\* whose entry holds the templates of the canvas.
C8_UnknownShapeFallsBackToFreshDocument ==
  /\ (lastOp.op = "fetchDone" /\ UnknownShape(data)) =>
       /\ ~crashed
       /\ toasts # <<>>
       /\ nodes = <<>>
       /\ edges = <<>>
  /\ (lastOp.op \in {"save", "preview"} /\ UnknownShape(data)) => SavesFreshDocument

IsStart(template) ==
  Has(template, "settings") /\ Get(template.settings, "isStart", FALSE)
IsReport(template) ==
  Has(template, "settings") /\ Get(template.settings, "isReport", FALSE)

\* C9: after handleStartToggle(true) the template has isStart true and isReport
\* false, after handleReportToggle(true) it has isReport true and isStart
\* false, and no template edited through the settings tab has both flags true.
C9_StartAndReportExcludeEachOther ==
  /\ (lastOp.op = "startToggle" /\ lastOp.checked) =>
       /\ IsStart(selectedTemplate) /\ ~IsReport(selectedTemplate)
       /\ \A i \in 1..Len(nodes) :
            nodes[i].id = lastOp.id => IsStart(nodes[i].data) /\ ~IsReport(nodes[i].data)
  /\ (lastOp.op = "reportToggle" /\ lastOp.checked) =>
       /\ IsReport(selectedTemplate) /\ ~IsStart(selectedTemplate)
       /\ \A i \in 1..Len(nodes) :
            nodes[i].id = lastOp.id => IsReport(nodes[i].data) /\ ~IsStart(nodes[i].data)
  /\ selectedTemplate # Nil => ~(IsStart(selectedTemplate) /\ IsReport(selectedTemplate))
  /\ \A i \in 1..Len(nodes) : ~(IsStart(nodes[i].data) /\ IsReport(nodes[i].data))

\* start was switched on for the template that was loaded as the report template
C9_Witness ==
  /\ lastOp.op = "startToggle"
  /\ lastOp.checked
  /\ lastOp.id = "b"
  /\ steps = 2
  /\ \E i \in 1..Len(nodes) :
       nodes[i].id = "b" /\ IsStart(nodes[i].data) /\ ~IsReport(nodes[i].data)

\* C10: from a flow with at most one start template and at most one report
\* template, every sequence of start and report toggles on any templates leaves
\* at most one template with isStart true and at most one with isReport true.
C10_AtMostOneStartAndOneReport ==
  /\ Cardinality({i \in 1..Len(nodes) : IsStart(nodes[i].data)}) <= 1
  /\ Cardinality({i \in 1..Len(nodes) : IsReport(nodes[i].data)}) <= 1


\* the operations the editor changes the canvas with
MutatingOps ==
  {"fetchDone", "readerOnload", "addTemplate", "startToggle", "reportToggle",
   "updateSetting", "deleteTemplate", "connect", "edgesDelete", "autoLayout",
   "toggleEdgeType"}

\* C11: every editor operation that changes the nodes or the edges of the canvas
\* (load, import, addTemplate, updateTemplate, deleteTemplate, onConnect,
\* onEdgesDelete, autoLayout, toggleEdgeType) appends exactly one snapshot to
\* the history: the entries up to the pointer stay, one entry follows them and
\* the pointer moves to it.
C11_MutatingActionAppendsSnapshot ==
  [][(lastOp'.op \in MutatingOps /\ (nodes' # nodes \/ edges' # edges)) =>
        /\ Len(history') = historyIndex + 2
        /\ SubSeq(history', 1, historyIndex + 1) = SubSeq(history, 1, historyIndex + 1)
        /\ historyIndex' = historyIndex + 1]_vars

\* C12: after onConnect(source, sourceHandle, target) the source template has a
\* route whose connectedTo is target, which is the route whose id is
\* sourceHandle or, for the default handle of a template without routes, the
\* single route created by the connection; the other templates are unchanged.
C12_ConnectWritesRouteTarget ==
  [][lastOp'.op = "connect" =>
        /\ Len(nodes') = Len(nodes)
        /\ \A i \in 1..Len(nodes) :
             IF nodes[i].id = lastOp'.source
             THEN LET before == Get(nodes[i].data, "routes", <<>>)
                      after == Get(nodes'[i].data, "routes", <<>>)
                  IN \E j \in 1..Len(after) :
                       /\ Get(after[j], "connectedTo", Undefined) = lastOp'.target
                       /\ \/ after[j].id = lastOp'.sourceHandle
                          \/ /\ lastOp'.sourceHandle = "default"
                             /\ Len(before) = 0
                             /\ Len(after) = 1
             ELSE nodes'[i] = nodes[i]]_vars


\* the canvas holds one node per template of the sequence, in its order, with
\* the template as its data
BuiltFrom(templates) ==
  /\ Len(nodes) = Len(templates)
  /\ \A i \in 1..Len(templates) :
       nodes[i].id = templates[i].id /\ nodes[i].data = templates[i]

\* the positions of the chatbots whose name is the parameter, letter case aside
Matching(chatbots, param) ==
  {i \in 1..Len(chatbots) : Lower(chatbots[i].name) = Lower(param)}

StoredChatbots(d) ==
  IF d = Nil \/ d.flow_json.empty \/ ~d.flow_json.parses \/ IsNull(d.flow_json.value)
  THEN <<>>
  ELSE IF Kind(d.flow_json.value, "chatbots") = "array"
  THEN d.flow_json.value.chatbots
  ELSE IF Kind(d.flow_json.value, "templates") = "array"
  THEN <<[name |-> IF Has(d, "chatbot_name") /\ d.chatbot_name # ""
                   THEN d.chatbot_name ELSE "Default Bot",
          templates |-> d.flow_json.value.templates]>>
  ELSE <<>>

\* the document is in the wrapper shape and one of its entries holds the
\* templates of the canvas, the other entries being those stored
WrapsCanvas(document, stored) ==
  /\ {"chatbots", "version"} \subseteq DOMAIN document
  /\ Len(document.chatbots) > 0
  /\ \E k \in 1..Len(document.chatbots) :
       /\ Has(document.chatbots[k], "templates")
       /\ document.chatbots[k].templates =
            [i \in 1..Len(nodes) |->
               StringifyTemplate(Put(nodes[i].data, "position", nodes[i].position))]
       /\ \A j \in (1..Len(document.chatbots)) \ {k} :
            j <= Len(stored) /\ document.chatbots[j] = stored[j]

\* C14: for every stored state (absent, unparsable, unknown shape, single-flow,
\* multi-chatbot) and every flow parameter, getCurrentFlowJson, which every
\* render and every save evaluates once the fetch has answered, returns a
\* document with a non-empty chatbots array in which exactly one entry is set
\* to the templates of the canvas; a single-flow document is wrapped in one
\* entry named after chatbot_name and keeps its version.
C14_SaveWritesWrapperShape ==
  ~isLoading =>
    /\ ~GetCurrentFlowJsonThrows(data, flowParam)
    /\ WrapsCanvas(GetCurrentFlowJson(nodes, data, flowParam), StoredChatbots(data))
    /\ (/\ data # Nil
        /\ ~data.flow_json.empty
        /\ data.flow_json.parses
        /\ ~IsNull(data.flow_json.value)
        /\ Kind(data.flow_json.value, "chatbots") # "array"
        /\ Kind(data.flow_json.value, "templates") = "array") =>
         LET document == GetCurrentFlowJson(nodes, data, flowParam) IN
         /\ document.version = data.flow_json.value.version
         /\ document.chatbots[1].name = StoredChatbots(data)[1].name


\* the label of a route: "any" for a regex route with pattern ".*", else the
\* pattern, which is the empty string when the route has none
RouteLabel(route) ==
  IF route.isRegex /\ route.pattern = ".*" THEN "any" ELSE route.pattern

\* C15: every edge made by the load, by the import or by onConnect carries the
\* label of the route it originates from ("any" for a regex route with pattern
\* ".*", the pattern when it is not empty, the empty string otherwise), and the
\* three code paths compute the same label for the same route.
C15_EdgeLabelDerivesFromRoute ==
  /\ \A i \in 1..Len(edges) :
       edges[i].origin # "" =>
         \E j \in 1..Len(nodes) :
           /\ nodes[j].id = edges[i].source
           /\ \E route \in Range(Get(nodes[j].data, "routes", <<>>)) :
                route.id = edges[i].origin /\ edges[i].label = RouteLabel(route)
  /\ \A j \in 1..Len(nodes) :
       \A route \in Range(Get(nodes[j].data, "routes", <<>>)) :
         /\ LoadLabel(route) = RouteLabel(route)
         /\ ImportLabel(route) = RouteLabel(route)
         /\ ConnectLabel(route.pattern, route.isRegex) = RouteLabel(route)

\* a connection was drawn from the regex route r1 of template a, whose pattern
\* is ".*", and its edge is labelled "any"
C15_Witness ==
  /\ lastOp.op = "connect"
  /\ lastOp.source = "a"
  /\ lastOp.sourceHandle = "r1"
  /\ lastOp.target = "a"
  /\ \E i \in 1..Len(edges) :
       /\ edges[i].source = "a"
       /\ edges[i].sourceHandle = "r1"
       /\ edges[i].target = "a"
       /\ edges[i].label = "any"


\* the routes of the templates that have connectedTo set, as
\* [source, sourceHandle, target]
ConnectedRoutes(templates) ==
  UNION {{[source |-> templates[i].id, sourceHandle |-> route.id,
            target |-> route.connectedTo] :
             route \in {r \in Range(Get(templates[i], "routes", <<>>)) :
                          /\ Has(r, "connectedTo")
                          /\ r.connectedTo # ""
                          /\ r.connectedTo # Undefined}} :
         i \in 1..Len(templates)}

\* the canvas holds one node per template (its id, its position or (0,0)) and
\* one edge per connected route, and nothing else
CanvasOf(templates) ==
  /\ Len(nodes) = Len(templates)
  /\ \A i \in 1..Len(templates) :
       /\ nodes[i].id = templates[i].id
       /\ nodes[i].position = IF Has(templates[i], "position")
                              THEN templates[i].position ELSE [x |-> 0, y |-> 0]
       /\ nodes[i].data = templates[i]
  /\ {[source |-> edges[i].source, sourceHandle |-> edges[i].sourceHandle,
       target |-> edges[i].target] : i \in 1..Len(edges)} = ConnectedRoutes(templates)
  /\ Len(edges) = Cardinality(ConnectedRoutes(templates))

\* C16: for every single-flow document {templates, version}, loading it from
\* the backend record and importing it from a file yield the same canvas: one
\* node per template (id of the template, its position or (0,0) when absent)
\* and exactly one edge per route whose connectedTo is set (source the
\* template, sourceHandle the route, target connectedTo), and nothing else.
C16_LoadAndImportBuildSameCanvas ==
  /\ (/\ lastOp.op = "fetchDone"
      /\ lastOp.ok
      /\ data.flow_json.value \in SingleFlows) => CanvasOf(data.flow_json.value.templates)
  /\ (/\ lastOp.op = "readerOnload"
      /\ lastOp.file.parses
      /\ lastOp.file.value \in SingleFlows) => CanvasOf(lastOp.file.value.templates)

\* the document that was loaded from the record has been imported from a file
\* over another canvas
C16_Witness ==
  /\ lastOp.op = "readerOnload"
  /\ lastOp.file = JsonText([templates |-> <<TemplateC, TemplateD>>, version |-> "1.0"])
  /\ data # Nil
  /\ data.flow_json = JsonText(LegacyFlow)
  /\ Len(edges) = 2
  /\ nodes[2].position = [x |-> 0, y |-> 0]


\* the step called saveToHistory: the handlers that call it, and the load and
\* the import when they committed a canvas
Appended ==
  \/ lastOp'.op \in {"addTemplate", "startToggle", "reportToggle", "updateSetting",
                     "deleteTemplate", "connect", "edgesDelete", "autoLayout"}
  \/ /\ lastOp'.op \in {"fetchDone", "mutateDone", "readerOnload"}
     /\ \E i \in 1..Len(toasts') : toasts'[i].kind \in {"success", "info"}
     /\ ~crashed'

\* C17: in every reachable state -1 <= historyIndex <= Len(history) - 1, with
\* historyIndex = -1 only while history is empty; immediately after a snapshot
\* is appended historyIndex = Len(history) - 1, so that an action appending a
\* snapshot after undos leaves no redo entry.
C17_HistoryPointerInRange ==
  /\ [](/\ -1 <= historyIndex
        /\ historyIndex <= Len(history) - 1
        /\ (historyIndex = -1 <=> history = <<>>))
  /\ [][Appended =>
          /\ historyIndex' = Len(history') - 1
          /\ ~CanRedo(history', historyIndex')]_vars

\* a template was added while a redo was available, and no redo is left
C17_Witness ==
  /\ lastOp.op = "addTemplate"
  /\ lastOp.redos > 0
  /\ historyIndex = Len(history) - 1
  /\ ~CanRedo(history, historyIndex)


\* C18: immediately after each operation that appends a snapshot (load, import,
\* addTemplate, updateTemplate, deleteTemplate, onConnect, onEdgesDelete,
\* autoLayout) the entry of the history under the pointer equals the resulting
\* nodes and edges of the canvas, so that a single undo returns the canvas to
\* what it was just before the operation.
C18_HistoryTopIsCanvas ==
  [][Appended =>
        /\ historyIndex' >= 0
        /\ history'[historyIndex' + 1].nodes = nodes'
        /\ history'[historyIndex' + 1].edges = edges'
        /\ CanUndo(historyIndex') =>
             /\ UndoResult(nodes', edges', history', historyIndex').nodes = nodes
             /\ UndoResult(nodes', edges', history', historyIndex').edges = edges]_vars


\* C19: in every state reached by load, import, onConnect, onEdgesDelete,
\* updateTemplate and deleteTemplate, each edge of the canvas has a route in
\* its source template whose id is the edge's sourceHandle and whose
\* connectedTo is the edge's target.
C19_EveryEdgeBackedByRoute ==
  \A i \in 1..Len(edges) :
    \E j \in 1..Len(nodes) :
      /\ nodes[j].id = edges[i].source
      /\ \E route \in Range(Get(nodes[j].data, "routes", <<>>)) :
           /\ route.id = edges[i].sourceHandle
           /\ Get(route, "connectedTo", Undefined) = edges[i].target


\* C20: after deleteTemplate removes the selected template, the canvas has no
\* node with its id, no edge whose source or target is its id, and no route of
\* a remaining template whose connectedTo is its id; the selection is cleared.
C20_DeletedTemplateLeavesNoReference ==
  lastOp.op = "deleteTemplate" =>
    /\ \A i \in 1..Len(nodes) : nodes[i].id # lastOp.id
    /\ \A i \in 1..Len(edges) :
         edges[i].source # lastOp.id /\ edges[i].target # lastOp.id
    /\ \A i \in 1..Len(nodes) :
         \A route \in Range(Get(nodes[i].data, "routes", <<>>)) :
           Get(route, "connectedTo", Undefined) # lastOp.id
    /\ selectedTemplate = Nil


\* C21: whenever selectedTemplate is not null, a node with its id is on the
\* canvas and selectedTemplate equals the data of that node, after any
\* interleaving of onNodeClick, onConnect, onEdgesDelete, updateTemplate, undo
\* and redo; so that a sidebar edit, which spreads selectedTemplate, never
\* overwrites a connectedTo written to the node after it was selected.
C21_SelectedTemplateNeverStale ==
  (/\ selectedTemplate # Nil
   /\ lastOp.op \in {"nodeClick", "connect", "edgesDelete", "startToggle",
                     "reportToggle", "updateSetting", "undo", "redo",
                     "readerOnload"}) =>
    \E i \in 1..Len(nodes) :
      nodes[i].id = selectedTemplate.id /\ nodes[i].data = selectedTemplate


\* the record the backend holds once the request issued last is stored, and
\* what the load effect of a freshly mounted editor does with it
SavedRecord == Put(server, "flow_json", inflight[Len(inflight)].flow_json)

Reloaded == LoadOutcome(SavedRecord, FALSE, FALSE, flowParam, "default")

\* C22: for every stored document shape and every flow parameter (absent,
\* matching a chatbot, matching none), when the document getCurrentFlowJson
\* returned to a save is stored and the editor is loaded again with the same
\* parameter, the loaded canvas has exactly the templates (ids, data,
\* positions) that were on the canvas when the save was made.
C22_SaveThenReloadRoundTrip ==
  (lastOp.op = "save" /\ inflight # <<>>) =>
    /\ ~GetCurrentFlowJsonThrows(SavedRecord, flowParam)
    /\ Reloaded.ran
    /\ ~Reloaded.threw
    /\ Reloaded.sets
    /\ Len(Reloaded.nodes) = Len(nodes)
    /\ \A i \in 1..Len(nodes) :
         /\ Reloaded.nodes[i].id = nodes[i].id
         /\ Reloaded.nodes[i].position = nodes[i].position
         /\ SeenTemplate(Reloaded.nodes[i].data) = SeenTemplate(nodes[i].data)

\* a save made with the parameter naming the second and third chatbot, after
\* a template of the loaded chatbot was deleted
C22_Witness ==
  /\ lastOp.op = "save"
  /\ inflight # <<>>
  /\ flowParam = "help"
  /\ data # Nil
  /\ data.flow_json = JsonText(ThreeBots)
  /\ nodes = <<>>
  /\ Len(SavedRecord.flow_json.value.chatbots) = 3


\* the fetched document is in the multi-chatbot shape
FetchedMultiChatbot ==
  /\ data # Nil
  /\ ~data.flow_json.empty
  /\ data.flow_json.parses
  /\ ~IsNull(data.flow_json.value)
  /\ Kind(data.flow_json.value, "chatbots") = "array"

\* the position of the entry a save edits: the first one the parameter names,
\* the first one when there is no parameter, 0 when there is none
EditedEntry(chatbots, param) ==
  IF param = ""
  THEN (IF Len(chatbots) > 0 THEN 1 ELSE 0)
  ELSE IF Matching(chatbots, param) = {} THEN 0
  ELSE CHOOSE i \in Matching(chatbots, param) :
         \A j \in Matching(chatbots, param) : i <= j

\* C23: when the fetched document is in the multi-chatbot shape, the document
\* a save writes holds every chatbot of the fetched document with the same
\* name, in the same order and with the same templates, except the one entry
\* the flow parameter selects (first case-insensitive name match; the first
\* entry without a parameter), whose templates are those of the canvas; no
\* entry is removed, and when the parameter matches none one entry is appended.
C23_SaveChangesOnlyEditedChatbot ==
  (lastOp.op = "save" /\ inflight # <<>> /\ FetchedMultiChatbot) =>
    LET old == data.flow_json.value.chatbots
        new == inflight[Len(inflight)].flow_json.value.chatbots
        k == EditedEntry(old, flowParam)
    IN /\ Len(new) = IF k = 0 THEN Len(old) + 1 ELSE Len(old)
       /\ \A i \in 1..Len(old) :
            /\ new[i].name = old[i].name
            /\ i # k => new[i] = old[i]
       /\ LET e == IF k = 0 THEN Len(new) ELSE k IN
          /\ new[e].templates = CanvasTemplates(nodes)
          /\ k = 0 /\ flowParam # "" => new[e].name = flowParam

\* a save with the parameter naming the second and the third chatbot, after
\* the canvas loaded from the second was changed
C23_Witness ==
  /\ lastOp.op = "save"
  /\ inflight # <<>>
  /\ FetchedMultiChatbot
  /\ flowParam = "help"
  /\ Len(inflight[Len(inflight)].flow_json.value.chatbots) = 3
  /\ inflight[Len(inflight)].flow_json.value.chatbots[2].templates
       # data.flow_json.value.chatbots[2].templates
  /\ inflight[Len(inflight)].flow_json.value.chatbots[3]
       = data.flow_json.value.chatbots[3]


\* C24: isSaving is true in every state in which a request issued by
\* saveCurrentFlowJson has neither resolved nor rejected, also when saves
\* overlap.
C24_SavingFlagTracksRequests ==
  (\E i \in 1..Len(inflight) : inflight[i].stage = "updateDoc") => isSaving

\* two requests were in flight and the first one has ended
C24_Witness ==
  /\ lastOp.op \in {"mutateDone", "saveRejected"}
  /\ Len(inflight) = 1
  /\ inflight[1].stage = "updateDoc"


\* C25: the stored document is applied to the canvas at most once: once the
\* load has run (isFlowLoaded), no later change of the fetched data, such as
\* the refetch mutate() starts after a save or data that arrives after the
\* editor started with an empty canvas, replaces the nodes or the edges or
\* appends to the history.
C25_DocumentAppliedAtMostOnce ==
  [][(isFlowLoaded /\ data' # data) =>
       /\ nodes' = nodes
       /\ edges' = edges
       /\ history' = history
       /\ historyIndex' = historyIndex]_vars

\* the refetch after a save has brought a document whose chatbot does not
\* have the templates the canvas has by now
C25_Witness ==
  /\ lastOp.op = "mutateDone"
  /\ ~crashed
  /\ isFlowLoaded
  /\ data # Nil
  /\ LoadOutcome(data, FALSE, FALSE, flowParam, edgeType).sets
  /\ Len(LoadOutcome(data, FALSE, FALSE, flowParam, edgeType).nodes) # Len(nodes)


\* C26: for every stored flow_json that parses as JSON (a document with an
\* empty chatbots array included) and every flow parameter, the load effect
\* does not throw: it ends with a canvas built from a chatbot's templates or
\* with a notification.
C26_LoadNeverThrows ==
  (/\ lastOp.op = "fetchDone"
   /\ data # Nil
   /\ ~data.flow_json.empty
   /\ data.flow_json.parses) =>
    LET out == LoadOutcome(data, FALSE, FALSE, flowParam, "default") IN
    /\ out.ran
    /\ ~out.threw
    /\ out.sets \/ out.raised # <<>>

\* the fetch has answered with a document whose chatbots array is empty
C26_Witness ==
  /\ lastOp.op = "fetchDone"
  /\ data # Nil
  /\ data.flow_json = JsonText([chatbots |-> <<>>, version |-> "1.0"])


\* C27: the history entries at or below the pointer are never lost: every
\* step keeps them where they are, in particular the step in which
\* reader.onload completes after other mutating actions ran between choosing
\* the file and the end of the read.
C27_HistoryBelowPointerKept ==
  [][/\ Len(history') >= historyIndex + 1
     /\ \A i \in 1..(historyIndex + 1) : history'[i] = history[i]]_vars

\* a read has completed with a file that was chosen before the action that
\* appended the entry then under the pointer
C27_Witness ==
  /\ lastOp.op = "readerOnload"
  /\ steps >= 2
  /\ history # <<>>


\* C28: previewCurrentFlowJson always starts a save of the current flow; the
\* emulator window is opened only when env is "local" (otherwise a warning is
\* shown and nothing is opened), and it is opened only after the request of
\* that save has completed successfully.
C28_PreviewSavesBeforeOpening ==
  [][/\ lastOp'.op = "preview" =>
          /\ Len(inflight') = Len(inflight) + 1
          /\ inflight'[Len(inflight')].flow_json
               = JsonText(GetCurrentFlowJson(nodes, data, flowParam))
          /\ (data = Nil \/ Get(data, "env", "") # "local") =>
               /\ opened' = opened
               /\ \E i \in 1..Len(toasts') : toasts'[i].kind = "warning"
     /\ opened' # opened =>
          /\ data # Nil
          /\ Get(data, "env", "") = "local"
          /\ \A i \in 1..Len(inflight') : inflight'[i].stage # "updateDoc"]_vars

\* the emulator window was opened by a preview in the local environment
C28_Witness ==
  /\ lastOp.op = "preview"
  /\ opened > 0
  /\ data.env = "local"
  /\ inflight # <<>>


\* C29: handleUndo with historyIndex <= 0 and handleRedo with historyIndex =
\* length(history) - 1 change nothing; otherwise they set the canvas to
\* history[historyIndex - 1], respectively history[historyIndex + 1], and move
\* the pointer by one; the history keeps its contents and its length.
C29_UndoRedoFrame ==
  [][/\ lastOp'.op = "undo" =>
          /\ history' = history
          /\ IF historyIndex <= 0
             THEN nodes' = nodes /\ edges' = edges /\ historyIndex' = historyIndex
             ELSE /\ nodes' = history[historyIndex].nodes
                  /\ edges' = history[historyIndex].edges
                  /\ historyIndex' = historyIndex - 1
     /\ lastOp'.op = "redo" =>
          /\ history' = history
          /\ IF historyIndex >= Len(history) - 1
             THEN nodes' = nodes /\ edges' = edges /\ historyIndex' = historyIndex
             ELSE /\ nodes' = history[historyIndex + 2].nodes
                  /\ edges' = history[historyIndex + 2].edges
                  /\ historyIndex' = historyIndex + 1]_vars

\* a redo has put back a snapshot with a template, after an undo
C29_Witness ==
  /\ lastOp.op = "redo"
  /\ lastOp.redos > 0
  /\ historyIndex > 0
  /\ nodes = history[historyIndex + 1].nodes
  /\ nodes # <<>>


\* C30: no two nodes of the canvas have the same id, in every state reached
\* from a document with pairwise distinct template ids by addTemplate (also
\* two additions of one type within the same millisecond), updateTemplate,
\* deleteTemplate, undo and redo.
C30_TemplateIdsUnique ==
  \A i, j \in 1..Len(nodes) : nodes[i].id = nodes[j].id => i = j

\* a second template of the same type was added within the millisecond of the
\* first
C30_Witness ==
  /\ lastOp.op = "addTemplate"
  /\ Len(nodes) = 2
  /\ nodes[1].id = lastOp.id
  /\ nodes[2].id = lastOp.id


\* the emitted template is the given one but for its settings, and its
\* settings are the given ones but for the keys in written
SameButSettings(given, emitted, written) ==
  LET old == IF Has(given, "settings") THEN given.settings ELSE EmptyObject IN
  /\ DOMAIN emitted = DOMAIN given \cup {"settings"}
  /\ \A k \in DOMAIN given \ {"settings"} : emitted[k] = given[k]
  /\ DOMAIN emitted.settings = DOMAIN old \cup written
  /\ \A k \in DOMAIN old \ written : emitted.settings[k] = old[k]

\* the value of a flag of the given template, false when it is not set
FlagOf(given, flag) ==
  IF Has(given, "settings") /\ Has(given.settings, flag)
  THEN given.settings[flag] ELSE FALSE

\* C31: updateSetting(key, value) emits a template equal to the given one
\* except that settings[key] = value: the other settings keys and the id,
\* name, type, message, routes, hooks and position are unchanged; and
\* handleStartToggle(false) and handleReportToggle(false) change only their own
\* flag and keep the value of the other flag, false when it was not set.
C31_SettingsEditTouchesOnlyItsKey ==
  [][/\ lastOp'.op = "updateSetting" =>
          /\ SameButSettings(selectedTemplate, selectedTemplate', {lastOp'.key})
          /\ lastOp'.key \in SwitchKeys =>
               selectedTemplate'.settings[lastOp'.key] = lastOp'.checked
          /\ lastOp'.key \in InputKeys =>
               selectedTemplate'.settings[lastOp'.key] = lastOp'.text
     /\ (lastOp'.op = "startToggle" /\ ~lastOp'.checked) =>
          /\ SameButSettings(selectedTemplate, selectedTemplate', {"isStart", "isReport"})
          /\ selectedTemplate'.settings.isStart = FALSE
          /\ selectedTemplate'.settings.isReport = FlagOf(selectedTemplate, "isReport")
     /\ (lastOp'.op = "reportToggle" /\ ~lastOp'.checked) =>
          /\ SameButSettings(selectedTemplate, selectedTemplate', {"isStart", "isReport"})
          /\ selectedTemplate'.settings.isReport = FALSE
          /\ selectedTemplate'.settings.isStart = FlagOf(selectedTemplate, "isStart")]_vars

\* start was switched off on the template that is the report template, and
\* the template is still the report template and has its route
C31_Witness ==
  /\ lastOp.op = "startToggle"
  /\ ~lastOp.checked
  /\ selectedTemplate # Nil
  /\ selectedTemplate.id = lastOp.id
  /\ selectedTemplate.settings.isStart = FALSE
  /\ selectedTemplate.settings.isReport = TRUE


====
